---- MODULE Spec2Model ----
(***************************************************************************)
(* ReduxLocalStorage: a reduxable that wraps a child reduxable and mirrors *)
(* its state to and from window.localStorage.                              *)
(*                                                                         *)
(* The model has three layers:                                             *)
(*   1. JavaScript values (objects are ordered lists of own properties,    *)
(*      symbol-keyed or string-keyed) and the JSON text of the store (a    *)
(*      list of tokens), with JSON.stringify and JSON.parse;               *)
(*   2. the child reduxable (the Test fixture) and the transforms;         *)
(*   3. the wrapper's internalReducer and the dispatch loop around it.     *)
(***************************************************************************)
EXTENDS Integers, Sequences, FiniteSets, TLC

VARIABLES
    cfg,        \* per wrapper instance: target key, transform, triggers
    state,      \* per wrapper instance: the state the dispatch loop holds
    childAlone, \* per wrapper instance: a bare child driven by the same actions
    storage,    \* window.localStorage: key -> stored text or absent
    booted,     \* per wrapper instance: value at its key when it was constructed
    persisted,  \* per key: last in-memory state a wrapper stored there, if any
    last,       \* per wrapper instance: record of its most recent reducer invocation
    ran         \* per wrapper instance: record of its most recent call of run

vars == <<cfg, state, childAlone, storage, booted, persisted, last, ran>>

(***************************************************************************)
(* Bounds                                                                  *)
(***************************************************************************)
\* number of distinct string payloads a TEST action may carry
MaxData == 2

(***************************************************************************)
(* JavaScript values                                                       *)
(***************************************************************************)
Undefined == [k |-> "undefined"]
Null == [k |-> "null"]
Str(s) == [k |-> "str", s |-> s]
Bool(b) == [k |-> "bool", b |-> b]
Obj(es) == [k |-> "obj", e |-> es]
\* the self-referential object { item: 5, child: <itself> }
Circ == [k |-> "circ"]

\* an own enumerable property with a string key
Entry(key, val) == [key |-> key, sym |-> FALSE, val |-> val]

\* the own enumerable property keyed by the symbol defaultStateSourceMarker
defaultStateSourceMarker == [key |-> "defaultStateSourceMarker", sym |-> TRUE, val |-> Bool(TRUE)]

SameKey(e, f) == e.key = f.key /\ e.sym = f.sym

\* o[key] for a non-null o: the property's value, or undefined
Get(o, key) ==
    IF o.k = "obj" /\ \E i \in 1..Len(o.e) : o.e[i].key = key /\ ~o.e[i].sym
    THEN LET i == CHOOSE j \in 1..Len(o.e) : o.e[j].key = key /\ ~o.e[j].sym
         IN  o.e[i].val
    ELSE Undefined

\* { ...es, [key]: val }: an existing property keeps its position
SetEntry(es, e) ==
    IF \E i \in 1..Len(es) : SameKey(es[i], e)
    THEN [i \in 1..Len(es) |-> IF SameKey(es[i], e) THEN e ELSE es[i]]
    ELSE Append(es, e)

\* delete o[key]
DeleteEntry(es, e) == SelectSeq(es, LAMBDA f : ~SameKey(f, e))

\* the own enumerable properties { ...v } copies; primitives other than
\* strings have none, a string has one per character (the strings met here
\* have at most one)
Spread(v) ==
    CASE v.k = "obj" -> v.e
      [] v.k = "str" -> IF v.s = "" THEN <<>> ELSE <<Entry("0", v)>>
      [] OTHER -> <<>>

\* ToBoolean
Truthy(v) ==
    CASE v.k = "bool" -> v.b
      [] v.k = "str" -> v.s # ""
      [] v.k \in {"undefined", "null"} -> FALSE
      [] OTHER -> TRUE

\* `${v}`
Template(v) ==
    CASE v.k = "str" -> v.s
      [] v.k = "bool" -> IF v.b THEN "true" ELSE "false"
      [] v.k = "null" -> "null"
      [] v.k = "undefined" -> "undefined"
      [] OTHER -> "[object Object]"

(***************************************************************************)
(* JSON text: a list of tokens                                             *)
(***************************************************************************)
Tok(t, x) == [t |-> t, x |-> x]
LBrace == Tok("punct", "{")
RBrace == Tok("punct", "}")
Colon == Tok("punct", ":")
Comma == Tok("punct", ",")

Thrown == [ok |-> FALSE, val |-> Undefined]
Returned(v) == [ok |-> TRUE, val |-> v]

RECURSIVE StringifyValue(_)
RECURSIVE StringifyMembers(_, _)

\* the members of an object in property order; symbol keys and undefined
\* values are skipped
StringifyMembers(es, first) ==
    IF es = <<>> THEN [ok |-> TRUE, toks |-> <<>>]
    ELSE LET e == Head(es) IN
         IF e.sym \/ e.val.k = "undefined" THEN StringifyMembers(Tail(es), first)
         ELSE LET v == StringifyValue(e.val)
                  r == StringifyMembers(Tail(es), FALSE)
              IN  IF v.ok /\ r.ok
                  THEN [ok |-> TRUE,
                        toks |-> (IF first THEN <<>> ELSE <<Comma>>)
                                 \o <<Tok("str", e.key), Colon>> \o v.toks \o r.toks]
                  ELSE [ok |-> FALSE, toks |-> <<>>]

StringifyValue(v) ==
    CASE v.k = "null" -> [ok |-> TRUE, toks |-> <<Tok("lit", "null")>>]
      [] v.k = "bool" -> [ok |-> TRUE, toks |-> <<Tok("lit", IF v.b THEN "true" ELSE "false")>>]
      [] v.k = "str" -> [ok |-> TRUE, toks |-> <<Tok("str", v.s)>>]
      [] v.k = "obj" -> LET m == StringifyMembers(v.e, TRUE)
                        IN  IF m.ok THEN [ok |-> TRUE, toks |-> <<LBrace>> \o m.toks \o <<RBrace>>]
                            ELSE m
      \* setItem stores String(undefined)
      [] v.k = "undefined" -> [ok |-> TRUE, toks |-> <<Tok("lit", "undefined")>>]
      \* TypeError: Converting circular structure to JSON
      [] OTHER -> [ok |-> FALSE, toks |-> <<>>]

JSONstringify(v) == StringifyValue(v)

ParseFail == [ok |-> FALSE, val |-> Undefined, rest |-> <<>>]

RECURSIVE ParseValue(_)
RECURSIVE ParseMembers(_, _, _)

\* after "{" (first) or after "," : either "}" closing an empty object, or
\* key : value followed by "," or "}"
ParseMembers(toks, acc, first) ==
    IF toks = <<>> THEN ParseFail
    ELSE IF first /\ Head(toks) = RBrace THEN [ok |-> TRUE, val |-> Obj(acc), rest |-> Tail(toks)]
    ELSE IF Len(toks) < 3 \/ toks[1].t # "str" \/ toks[2] # Colon THEN ParseFail
    ELSE LET v == ParseValue(SubSeq(toks, 3, Len(toks))) IN
         IF ~v.ok \/ v.rest = <<>> THEN ParseFail
         ELSE LET acc2 == SetEntry(acc, Entry(toks[1].x, v.val)) IN
              IF Head(v.rest) = RBrace THEN [ok |-> TRUE, val |-> Obj(acc2), rest |-> Tail(v.rest)]
              ELSE IF Head(v.rest) = Comma THEN ParseMembers(Tail(v.rest), acc2, FALSE)
              ELSE ParseFail

ParseValue(toks) ==
    IF toks = <<>> THEN ParseFail
    ELSE LET h == Head(toks) IN
         CASE h.t = "str" -> [ok |-> TRUE, val |-> Str(h.x), rest |-> Tail(toks)]
           [] h.t = "lit" /\ h.x = "null" -> [ok |-> TRUE, val |-> Null, rest |-> Tail(toks)]
           [] h.t = "lit" /\ h.x = "true" -> [ok |-> TRUE, val |-> Bool(TRUE), rest |-> Tail(toks)]
           [] h.t = "lit" /\ h.x = "false" -> [ok |-> TRUE, val |-> Bool(FALSE), rest |-> Tail(toks)]
           [] h = LBrace -> ParseMembers(Tail(toks), <<>>, TRUE)
           [] OTHER -> ParseFail

\* SyntaxError unless the whole text is one value
JSONparse(toks) ==
    LET r == ParseValue(toks)
    IN  IF r.ok /\ r.rest = <<>> THEN Returned(r.val) ELSE Thrown

(***************************************************************************)
(* The child reduxable: the Test fixture                                   *)
(***************************************************************************)
TestDefaultState ==
    Obj(<<Entry("data", Str("")), Entry("reducer", Bool(FALSE)), Entry("updated", Obj(<<>>))>>)

\* Test.internalReducer.  ok: no exception; val: the state returned; same:
\* the state returned is the very object passed in
TestReducer(st, action) ==
    \* state = context.defaultState
    LET cur == IF st.k = "undefined" THEN TestDefaultState ELSE st IN
    \* TypeError: cannot read property 'reducer' of null
    IF cur.k = "null" THEN [ok |-> FALSE, val |-> Undefined, same |-> FALSE]
    ELSE LET r == Truthy(Get(cur, "reducer"))
             s == IF r THEN cur ELSE Obj(SetEntry(Spread(cur), Entry("reducer", Bool(TRUE))))
         IN  IF action.type = "TEST"
             THEN [ok |-> TRUE, val |-> Obj(SetEntry(Spread(s), Entry("data", action.data))), same |-> FALSE]
             ELSE [ok |-> TRUE, val |-> s, same |-> r /\ st.k # "undefined"]

(***************************************************************************)
(* Transforms                                                              *)
(***************************************************************************)
\* "identity": the constructor's default; "fixture": the transform of the
\* two transform tests; "throwing": a transform whose functions throw
Transforms == {"identity", "fixture", "throwing"}

TransformRead(tr, m) ==
    CASE tr = "identity" -> Returned(m)
      [] tr = "fixture" ->
            Returned(Obj(<<Entry("data", Str("Transformed read: " \o Template(m))),
                           Entry("reducer", Bool(TRUE)), Entry("updated", Obj(<<>>))>>))
      [] OTHER -> Thrown

TransformWrite(tr, s) ==
    CASE tr = "identity" -> Returned(s)
      [] tr = "fixture" -> Returned(Str("Transformed write: " \o Template(Get(s, "data"))))
      [] OTHER -> Thrown

(***************************************************************************)
(* The wrapper                                                             *)
(***************************************************************************)
UnmarshalWarning == "Could not unmarshal state from localStorage"
MarshalWarning == "Could not marshal state to localStorage"

Absent == [has |-> FALSE, toks |-> <<>>]
Stored(toks) == [has |-> TRUE, toks |-> toks]

\* get defaultState
DefaultState == Obj(SetEntry(Spread(TestDefaultState), defaultStateSourceMarker))

\* inputState[defaultStateSourceMarker]
HasMarker(s) ==
    /\ s.k = "obj"
    /\ \E i \in 1..Len(s.e) : SameKey(s.e[i], defaultStateSourceMarker) /\ Truthy(s.e[i].val)

\* Unmarshal as it would be if the parsed value were used without transform.read
UnmarshalSkipsRead(tr, toks) == JSONparse(toks)

\* Unmarshal as it would be if a parse error were swallowed without a report
\* and left the state undefined
UnmarshalSwallowsErrors(tr, toks) ==
    LET p == JSONparse(toks)
    IN  IF p.ok THEN TransformRead(tr, p.val) ELSE Returned(Undefined)

\* the try block of the initialization branch
Unmarshal(tr, toks) ==
    LET p == JSONparse(toks)
    IN  IF p.ok THEN TransformRead(tr, p.val) ELSE Thrown

\* FallbackState as it would be without the delete
FallbackStateKeepsMarker(s) == Obj(Spread(s))

\* clone the default state and remove the marker
FallbackState(s) == Obj(DeleteEntry(Spread(s), defaultStateSourceMarker))

\* IndexOfHit as it would be if an empty list meant "no filter"
IndexOfHitEmptyMatchesAll(list, type) ==
    list = <<>> \/ \E i \in 1..Len(list) : list[i] = type

\* context.triggers.indexOf(a.type) >= 0
IndexOfHit(list, type) == \E i \in 1..Len(list) : list[i] = type

\* ShouldPersist as it would be if saving needed a listed trigger
ShouldPersistOnlyListed(same, triggers, type) ==
    ~same /\ triggers.defined /\ IndexOfHit(triggers.list, type)

\* ShouldPersist as it would be if the trigger list were not consulted
ShouldPersistAnyChange(same, triggers, type) == ~same

\* ShouldPersist as it would be without the reference comparison
ShouldPersistEvenIfSame(same, triggers, type) ==
    ~triggers.defined \/ IndexOfHit(triggers.list, type)

\* the condition guarding the save
ShouldPersist(same, triggers, type) ==
    ~same /\ (~triggers.defined \/ IndexOfHit(triggers.list, type))

\* Marshal as it would be if the state were serialized without transform.write
MarshalSkipsWrite(tr, nextState) == JSONstringify(nextState)

\* JSON.stringify(context.transform.write(nextState))
Marshal(tr, nextState) ==
    LET w == TransformWrite(tr, nextState)
    IN  IF w.ok THEN JSONstringify(w.val) ELSE [ok |-> FALSE, toks |-> <<>>]

\* SetItem as it would be if a rejected write still replaced the value
SetItemPartial(store, key, toks, quota) ==
    [ok |-> ~quota, store |-> [store EXCEPT ![key] = Stored(toks)]]

\* SetItem as it would be if the new text were appended to the text present
SetItemAppends(store, key, toks, quota) ==
    IF quota THEN [ok |-> FALSE, store |-> store]
    ELSE [ok |-> TRUE, store |-> [store EXCEPT ![key] = Stored(@.toks \o toks)]]

\* SetItem as it would be if a rejected write removed the key
SetItemRemovesOnReject(store, key, toks, quota) ==
    IF quota THEN [ok |-> FALSE, store |-> [store EXCEPT ![key] = Absent]]
    ELSE [ok |-> TRUE, store |-> [store EXCEPT ![key] = Stored(toks)]]

\* SetItem as it would be if the text were written at every key
SetItemEveryKey(store, key, toks, quota) ==
    IF quota THEN [ok |-> FALSE, store |-> store]
    ELSE [ok |-> TRUE, store |-> [k \in DOMAIN store |-> Stored(toks)]]

\* window.localStorage.setItem; quota: the store rejects the write
SetItem(store, key, toks, quota) ==
    IF quota THEN [ok |-> FALSE, store |-> store]
    ELSE [ok |-> TRUE, store |-> [store EXCEPT ![key] = Stored(toks)]]

\* window.localStorage.getItem; denied: access to the store throws
GetItem(store, key, denied) ==
    IF denied THEN [ok |-> FALSE, item |-> Absent] ELSE [ok |-> TRUE, item |-> store[key]]

\* what an invocation leaves when an exception escapes the initialization
\* branch before the child is called
InitThrown(store) ==
    [branch |-> "init", resolved |-> Undefined, fellBack |-> FALSE,
     ret |-> Thrown, same |-> FALSE, tried |-> FALSE, wrote |-> FALSE,
     store |-> store, warns |-> <<>>]

\* InitBranch as it would be if initialization were a pass that only seeds the
\* state and drops the action that arrived with it
InitBranchDropsAction(c, s, a, store, denied) ==
    LET got == GetItem(store, c.target, denied)
        storedStateString == got.item
        loaded == IF storedStateString.has THEN Unmarshal(c.transform, storedStateString.toks)
                  ELSE Thrown
        useDefaultState == ~(storedStateString.has /\ loaded.ok)
        inputState == IF useDefaultState THEN FallbackState(s) ELSE loaded.val
    IN  IF ~got.ok THEN InitThrown(store)
        ELSE
        [branch |-> "init", resolved |-> inputState, fellBack |-> useDefaultState,
         ret |-> Returned(inputState), same |-> TRUE,
         tried |-> FALSE, wrote |-> FALSE, store |-> store,
         warns |-> IF storedStateString.has /\ ~loaded.ok THEN <<UnmarshalWarning>> ELSE <<>>]

\* InitBranch as it would be if the state it returns were saved like any other
\* new state
InitBranchSaves(c, s, a, store, denied) ==
    LET got == GetItem(store, c.target, denied)
        storedStateString == got.item
        loaded == IF storedStateString.has THEN Unmarshal(c.transform, storedStateString.toks)
                  ELSE Thrown
        useDefaultState == ~(storedStateString.has /\ loaded.ok)
        inputState == IF useDefaultState THEN FallbackState(s) ELSE loaded.val
        r == TestReducer(inputState, a)
        tried == r.ok /\ ShouldPersist(FALSE, c.triggers, a.type)
        m == Marshal(c.transform, r.val)
        wrote == tried /\ m.ok
    IN  IF ~got.ok THEN InitThrown(store)
        ELSE
        [branch |-> "init", resolved |-> inputState, fellBack |-> useDefaultState,
         ret |-> [ok |-> r.ok, val |-> r.val], same |-> r.same,
         tried |-> tried, wrote |-> wrote,
         store |-> IF wrote THEN SetItem(store, c.target, m.toks, FALSE).store ELSE store,
         warns |-> IF storedStateString.has /\ ~loaded.ok THEN <<UnmarshalWarning>> ELSE <<>>]

\* the initialization branch: s carries the marker
InitBranch(c, s, a, store, denied) ==
    LET got == GetItem(store, c.target, denied)
        storedStateString == got.item
        loaded == IF storedStateString.has THEN Unmarshal(c.transform, storedStateString.toks)
                  ELSE Thrown
        useDefaultState == ~(storedStateString.has /\ loaded.ok)
        inputState == IF useDefaultState THEN FallbackState(s) ELSE loaded.val
        r == TestReducer(inputState, a)
    IN  IF ~got.ok THEN InitThrown(store)
        ELSE
        [branch |-> "init", resolved |-> inputState, fellBack |-> useDefaultState,
         ret |-> [ok |-> r.ok, val |-> r.val], same |-> r.same,
         tried |-> FALSE, wrote |-> FALSE, store |-> store,
         warns |-> IF storedStateString.has /\ ~loaded.ok THEN <<UnmarshalWarning>> ELSE <<>>]

\* NormalBranch as it would be if every invocation loaded the stored state
\* again and handed it to the child
NormalBranchReloads(c, s, a, store, quota) ==
    LET loaded == Unmarshal(c.transform, store[c.target].toks)
        cur == IF store[c.target].has /\ loaded.ok THEN loaded.val ELSE s
        r == TestReducer(cur, a)
        tried == r.ok /\ ShouldPersist(r.same, c.triggers, a.type)
        m == Marshal(c.transform, r.val)
        w == SetItem(store, c.target, m.toks, quota)
        wrote == tried /\ m.ok /\ w.ok
    IN  [branch |-> "normal", resolved |-> cur, fellBack |-> FALSE,
         ret |-> [ok |-> r.ok, val |-> r.val], same |-> r.same,
         tried |-> tried, wrote |-> wrote,
         store |-> IF tried /\ m.ok THEN w.store ELSE store,
         warns |-> IF tried /\ ~wrote THEN <<MarshalWarning>> ELSE <<>>]

\* the normal branch
NormalBranch(c, s, a, store, quota) ==
    LET r == TestReducer(s, a)
        tried == r.ok /\ ShouldPersist(r.same, c.triggers, a.type)
        m == Marshal(c.transform, r.val)
        w == SetItem(store, c.target, m.toks, quota)
        wrote == tried /\ m.ok /\ w.ok
    IN  [branch |-> "normal", resolved |-> s, fellBack |-> FALSE,
         ret |-> [ok |-> r.ok, val |-> r.val], same |-> r.same,
         tried |-> tried, wrote |-> wrote,
         store |-> IF tried /\ m.ok THEN w.store ELSE store,
         warns |-> IF tried /\ ~wrote THEN <<MarshalWarning>> ELSE <<>>]

\* the function internalReducer returns
InternalReducer(c, s, a, store, quota, denied) ==
    IF HasMarker(s) THEN InitBranch(c, s, a, store, denied)
    ELSE NormalBranch(c, s, a, store, quota)

\* Test.run
TestRun(data) == [type |-> "TEST", data |-> data]

\* Run as it would be if the arguments were not forwarded
RunDropsArguments(data) == [type |-> "TEST", data |-> Undefined]

\* ReduxLocalStorage.run: passthrough
Run(data) == TestRun(data)

(***************************************************************************)
(* The dispatch loop                                                       *)
(***************************************************************************)
Keys == {"rlswt", "rlsnt"}

\* triggers: undefined, [], ['TEST'], and a list without 'TEST'
TriggerConfigs ==
    {[defined |-> FALSE, list |-> <<>>], [defined |-> TRUE, list |-> <<>>],
     [defined |-> TRUE, list |-> <<"TEST">>], [defined |-> TRUE, list |-> <<"OTHER">>]}

\* new ReduxLocalStorage(new Test(), target, options)
Configs(target) ==
    [target : {target}, transform : Transforms, triggers : TriggerConfigs]

DataPool == <<"am i writing", "new data", "running this saga", ".run test string">>

\* what a TEST action may carry: a string, or the self-referential object
Payloads == {Str(DataPool[i]) : i \in 1..MaxData} \cup {Circ}

Actions ==
    {[type |-> "TEST", data |-> d] : d \in Payloads}
        \cup {[type |-> t, data |-> Undefined] : t \in {"@@", "OTHER"}}

\* what the store may hold at a key before a wrapper is constructed: nothing,
\* a saved fixture state, truncated JSON, a JSON string, null, an empty object
InitialContents ==
    {Absent,
     Stored(<<LBrace, Tok("str", "data"), Colon, Tok("str", "i was already here"), Comma,
              Tok("str", "reducer"), Colon, Tok("lit", "true"), Comma,
              Tok("str", "updated"), Colon, LBrace, RBrace, RBrace>>),
     Stored(<<LBrace, Tok("str", "broken"), Colon, Tok("str", "JSON")>>),
     Stored(<<Tok("str", "r")>>),
     Stored(<<Tok("lit", "null")>>),
     Stored(<<LBrace, RBrace>>)}

NoInvocation ==
    [branch |-> "none", input |-> Undefined, action |-> [type |-> "@@", data |-> Undefined],
     quota |-> FALSE, denied |-> FALSE, resolved |-> Undefined, fellBack |-> FALSE,
     ret |-> Thrown, same |-> FALSE, tried |-> FALSE, wrote |-> FALSE,
     before |-> Absent, warns |-> <<>>]

NotPersisted == [has |-> FALSE, val |-> Undefined, by |-> 0]

NotRun == [has |-> FALSE, args |-> Undefined, out |-> [type |-> "@@", data |-> Undefined]]

\* one wrapper on key 'rlswt', any configuration, any prior content at its key
Init ==
    /\ cfg \in [{1} -> Configs("rlswt")]
    /\ \E c \in InitialContents : storage = [k \in Keys |-> IF k = "rlswt" THEN c ELSE Absent]
    /\ state = [w \in DOMAIN cfg |-> DefaultState]
    /\ childAlone = [w \in DOMAIN cfg |-> Undefined]
    /\ booted = [w \in DOMAIN cfg |-> storage[cfg[w].target]]
    /\ persisted = [k \in Keys |-> NotPersisted]
    /\ last = [w \in DOMAIN cfg |-> NoInvocation]
    /\ ran = [w \in DOMAIN cfg |-> NotRun]

\* store.dispatch(a) as seen by wrapper w: its reducer runs on the state the
\* loop holds; a state it returns becomes the state the loop holds, an
\* exception leaves that state alone
Dispatch(w, a, quota, denied) ==
    LET c == cfg[w]
        r == InternalReducer(c, state[w], a, storage, quota, denied)
    IN  /\ state' = IF r.ret.ok THEN [state EXCEPT ![w] = r.ret.val] ELSE state
        /\ childAlone' = [childAlone EXCEPT ![w] = TestReducer(@, a).val]
        /\ storage' = r.store
        /\ persisted' = IF r.wrote
                        THEN [persisted EXCEPT ![c.target] = [has |-> TRUE, val |-> r.ret.val, by |-> w]]
                        ELSE persisted
        /\ last' = [last EXCEPT ![w] =
                        [branch |-> r.branch, input |-> state[w], action |-> a, quota |-> quota,
                         denied |-> denied,
                         resolved |-> r.resolved, fellBack |-> r.fellBack,
                         ret |-> r.ret, same |-> r.same, tried |-> r.tried, wrote |-> r.wrote,
                         before |-> storage[c.target], warns |-> r.warns]]
        /\ UNCHANGED <<cfg, booted, ran>>

\* the page is reloaded: wrapper w is constructed again with the same
\* arguments, the store keeps its content
Restart(w) ==
    /\ last[w].branch # "none"
    /\ state' = [state EXCEPT ![w] = DefaultState]
    /\ childAlone' = [childAlone EXCEPT ![w] = Undefined]
    /\ booted' = [booted EXCEPT ![w] = storage[cfg[w].target]]
    /\ last' = [last EXCEPT ![w] = NoInvocation]
    /\ ran' = [ran EXCEPT ![w] = NotRun]
    /\ UNCHANGED <<cfg, storage, persisted>>

Next ==
    \/ \E w \in DOMAIN cfg, a \in Actions, quota \in BOOLEAN : Dispatch(w, a, quota, FALSE)
    \/ \E w \in DOMAIN cfg : Restart(w)

Spec == Init /\ [][Next]_vars

\* a value of the shape of TestState
ValidState(v) ==
    /\ v.k = "obj"
    /\ Get(v, "data").k = "str"
    /\ Get(v, "reducer").k = "bool"
    /\ Get(v, "updated").k = "obj"

\* wrapper w's run is called with one argument
CallRun(w, data) ==
    /\ ran' = [ran EXCEPT ![w] = [has |-> TRUE, args |-> data, out |-> Run(data)]]
    /\ UNCHANGED <<cfg, state, childAlone, storage, booted, persisted, last>>

\* the loop of one page load over a store that accepts writes, together with
\* calls of run
NextRun ==
    \/ \E w \in DOMAIN cfg, a \in Actions : Dispatch(w, a, FALSE, FALSE)
    \/ \E w \in DOMAIN cfg, data \in Payloads : CallRun(w, data)

SpecRun == Init /\ [][NextRun]_vars

\* the text of the saved fixture state among InitialContents
SavedContent ==
    CHOOSE c \in InitialContents : c.has /\ ValidState(JSONparse(c.toks).val)

\* two instances of the same wrapper (the application open in two tabs) on
\* the one key 'rlswt', with the default options (no triggers, identity
\* transform), over an empty slot or a saved state
InitShared ==
    /\ \E c \in Configs("rlswt") :
          /\ ~c.triggers.defined
          /\ c.transform = "identity"
          /\ cfg = [w \in {1, 2} |-> c]
    /\ \E c \in {Absent, SavedContent} :
          storage = [k \in Keys |-> IF k = "rlswt" THEN c ELSE Absent]
    /\ state = [w \in DOMAIN cfg |-> DefaultState]
    /\ childAlone = [w \in DOMAIN cfg |-> Undefined]
    /\ booted = [w \in DOMAIN cfg |-> storage[cfg[w].target]]
    /\ persisted = [k \in Keys |-> NotPersisted]
    /\ last = [w \in DOMAIN cfg |-> NoInvocation]
    /\ ran = [w \in DOMAIN cfg |-> NotRun]

\* reducer invocations of the instances, interleaved in any order, over a
\* store that accepts writes
NextShared ==
    \E w \in DOMAIN cfg, a \in Actions : Dispatch(w, a, FALSE, FALSE)

SpecShared == InitShared /\ [][NextShared]_vars

\* the same loop in a browser where reading the store may throw
NextFault ==
    \/ \E w \in DOMAIN cfg, a \in Actions, quota \in BOOLEAN, denied \in BOOLEAN :
          Dispatch(w, a, quota, denied)
    \/ \E w \in DOMAIN cfg : Restart(w)

SpecFault == Init /\ [][NextFault]_vars

\* what is recorded of an invocation r of wrapper w on action a over store
Recorded(w, a, quota, r, store) ==
    [branch |-> r.branch, input |-> state[w], action |-> a, quota |-> quota,
     denied |-> FALSE,
     resolved |-> r.resolved, fellBack |-> r.fellBack,
     ret |-> r.ret, same |-> r.same, tried |-> r.tried, wrote |-> r.wrote,
     before |-> store[cfg[w].target], warns |-> r.warns]

\* store.dispatch(a) on a store made with combineReducers over the reducers
\* of wrappers 1 and 2: the reducers run in turn on the same action; the new
\* states replace the old ones only when both returned, and the second
\* reducer does not run when the first throws. quota[w]: the store rejects
\* the write of wrapper w.
CombinedDispatch(a, quota) ==
    LET r1 == InternalReducer(cfg[1], state[1], a, storage, quota[1], FALSE)
        r2 == InternalReducer(cfg[2], state[2], a, r1.store, quota[2], FALSE)
        p1 == IF r1.wrote
              THEN [persisted EXCEPT ![cfg[1].target] = [has |-> TRUE, val |-> r1.ret.val, by |-> 1]]
              ELSE persisted
        p2 == IF r2.wrote
              THEN [p1 EXCEPT ![cfg[2].target] = [has |-> TRUE, val |-> r2.ret.val, by |-> 2]]
              ELSE p1
    IN  /\ DOMAIN cfg = {1, 2}
        /\ state' = IF r1.ret.ok /\ r2.ret.ok
                     THEN [w \in DOMAIN cfg |-> IF w = 1 THEN r1.ret.val ELSE r2.ret.val]
                     ELSE state
        /\ childAlone' = [w \in DOMAIN cfg |->
                              IF w = 1 \/ r1.ret.ok THEN TestReducer(childAlone[w], a).val
                              ELSE childAlone[w]]
        /\ storage' = IF r1.ret.ok THEN r2.store ELSE r1.store
        /\ persisted' = IF r1.ret.ok THEN p2 ELSE p1
        /\ last' = [w \in DOMAIN cfg |->
                        IF w = 1 THEN Recorded(1, a, quota[1], r1, storage)
                        ELSE IF r1.ret.ok THEN Recorded(2, a, quota[2], r2, r1.store)
                        ELSE last[2]]
        /\ UNCHANGED <<cfg, booted, ran>>

\* another writer (another tab, the user clearing site data) replaces or
\* removes the value at key k
ExternalWrite(k, c) ==
    /\ storage[k] # c
    /\ storage' = [storage EXCEPT ![k] = c]
    /\ UNCHANGED <<cfg, state, childAlone, booted, persisted, last, ran>>

\* what another writer may leave at a key
ExternalContents == {Absent, SavedContent, Stored(<<LBrace, Tok("str", "broken"), Colon, Tok("str", "JSON")>>)}

\* two runs of one wrapper side by side: both have the same transform and
\* no triggers, each has a store of its own (the slot of its key), and the
\* stores start with any contents
InitTwin ==
    /\ \E t \in {"identity", "fixture"} :
          cfg = [w \in {1, 2} |->
                    [target |-> IF w = 1 THEN "rlswt" ELSE "rlsnt", transform |-> t,
                     triggers |-> [defined |-> FALSE, list |-> <<>>]]]
    /\ storage \in [Keys -> ExternalContents]
    /\ state = [w \in DOMAIN cfg |-> DefaultState]
    /\ childAlone = [w \in DOMAIN cfg |-> Undefined]
    /\ booted = [w \in DOMAIN cfg |-> storage[cfg[w].target]]
    /\ persisted = [k \in Keys |-> NotPersisted]
    /\ last = [w \in DOMAIN cfg |-> NoInvocation]
    /\ ran = [w \in DOMAIN cfg |-> NotRun]

\* the two runs receive the same actions; between invocations the store of
\* the second run is modified by another writer
NextTwin ==
    \/ \E a \in Actions : CombinedDispatch(a, <<FALSE, FALSE>>)
    \/ \E c \in ExternalContents : ExternalWrite("rlsnt", c)

SpecTwin == InitTwin /\ [][NextTwin]_vars

\* the store of the tests: one wrapper on 'rlswt' and one on 'rlsnt' under a
\* combined reducer, the first with the identity or the fixture transform and
\* triggers ['TEST'], the second with triggers undefined or [], each key empty
\* or holding a saved state or null
InitIsolated ==
    /\ \E c1 \in Configs("rlswt"), c2 \in Configs("rlsnt") :
          /\ c1.transform \in {"identity", "fixture"}
          /\ c1.triggers.list = <<"TEST">>
          /\ c2.transform = "identity"
          /\ c2.triggers.list = <<>>
          /\ cfg = [w \in {1, 2} |-> IF w = 1 THEN c1 ELSE c2]
    /\ storage \in [Keys -> {Absent, SavedContent, Stored(<<Tok("lit", "null")>>)}]
    /\ state = [w \in DOMAIN cfg |-> DefaultState]
    /\ childAlone = [w \in DOMAIN cfg |-> Undefined]
    /\ booted = [w \in DOMAIN cfg |-> storage[cfg[w].target]]
    /\ persisted = [k \in Keys |-> NotPersisted]
    /\ last = [w \in DOMAIN cfg |-> NoInvocation]
    /\ ran = [w \in DOMAIN cfg |-> NotRun]

\* every action goes to both wrappers through the combined reducer; the
\* store may reject the write of the first
NextIsolated ==
    \E a \in Actions, quota \in BOOLEAN : CombinedDispatch(a, <<quota, FALSE>>)

SpecIsolated == InitIsolated /\ [][NextIsolated]_vars

(***************************************************************************)
(* Properties                                                              *)
(***************************************************************************)
Invoked(w) == last[w].branch # "none"

\* the persisted form of state s under the transform of configuration c
Written(c, s) == TransformWrite(c.transform, s)

\* transform.write and the serialization of its result both succeed on s
WriteOk(c, s) == Written(c, s).ok /\ JSONstringify(Written(c, s).val).ok

\* the text a successful save of state s by a wrapper configured c leaves
SavedText(c, s) == Stored(JSONstringify(Written(c, s).val).toks)

\* the action types listed in the triggers of configuration c
Listed(c) == {c.triggers.list[i] : i \in 1..Len(c.triggers.list)}

\* the last invocation of w took the normal branch, the child returned a
\* different object, and the triggers let the save go ahead
Attempted(w) ==
    /\ last[w].branch = "normal"
    /\ ~last[w].same
    /\ (~cfg[w].triggers.defined \/ last[w].action.type \in Listed(cfg[w]))

\* an object carries a symbol-keyed property
MarkerOn(v) == v.k = "obj" /\ \E i \in 1..Len(v.e) : v.e[i].sym

\* C1 - Passthrough equivalence: a wrapper constructed over an empty slot
\* returns, at every invocation of the dispatch loop, exactly the state the
\* bare child returns when driven from its own default state by the same
\* actions, whatever the triggers and whether or not the save succeeded.
C1_PassthroughEquivalence ==
    \A w \in DOMAIN cfg :
        (~booted[w].has /\ Invoked(w)) =>
            /\ last[w].ret.ok
            /\ last[w].ret.val = childAlone[w]
            /\ state[w] = childAlone[w]

\* an invocation after initialization whose save failed, states still equal
C1_Witness ==
    \E w \in DOMAIN cfg :
        /\ ~booted[w].has
        /\ last[w].branch = "normal"
        /\ last[w].tried /\ ~last[w].wrote
        /\ state[w] = childAlone[w]
        /\ Get(state[w], "data") = Str(DataPool[1])

\* C2 (as stated) - with triggers undefined and serialization succeeding,
\* every reducer invocation whose returned state differs from its input
\* leaves the serialization of the returned state at the key.
C2_Original ==
    \A w \in DOMAIN cfg :
        (/\ ~cfg[w].triggers.defined
         /\ Invoked(w) /\ last[w].ret.ok
         /\ last[w].ret.val # last[w].input
         /\ WriteOk(cfg[w], last[w].ret.val) /\ ~last[w].quota)
        => storage[cfg[w].target] = Stored(JSONstringify(last[w].ret.val).toks)

\* C2 (amended) - with triggers undefined and marshalling succeeding, every
\* normal-branch invocation (input without the marker) whose returned state
\* differs from its input leaves JSON(transform.write(returned state)) at the
\* key; the initializing invocation never saves.
C2_PersistOnEveryChange ==
    \A w \in DOMAIN cfg :
        (/\ ~cfg[w].triggers.defined
         /\ last[w].branch = "normal" /\ last[w].ret.ok
         /\ last[w].ret.val # last[w].input
         /\ WriteOk(cfg[w], last[w].ret.val) /\ ~last[w].quota)
        => storage[cfg[w].target] = SavedText(cfg[w], last[w].ret.val)

\* a change after initialization that replaced the text at the key
C2_Witness ==
    \E w \in DOMAIN cfg :
        /\ ~cfg[w].triggers.defined
        /\ last[w].branch = "normal"
        /\ last[w].ret.val # last[w].input
        /\ storage[cfg[w].target] = SavedText(cfg[w], last[w].ret.val)
        /\ storage[cfg[w].target] # last[w].before
        /\ last[w].before.has

\* C3 - with a non-empty trigger list, an invocation for an action whose type
\* is not listed leaves the value at the key as it was, even when the child
\* returned a different state.
C3_UnlistedActionNeverWrites ==
    \A w \in DOMAIN cfg :
        (/\ Invoked(w)
         /\ cfg[w].triggers.defined /\ Listed(cfg[w]) # {}
         /\ last[w].action.type \notin Listed(cfg[w]))
        => storage[cfg[w].target] = last[w].before

\* an unlisted action changed the state and a save would have changed the text
C3_Witness ==
    \E w \in DOMAIN cfg :
        /\ cfg[w].triggers.defined /\ Listed(cfg[w]) # {}
        /\ last[w].action.type \notin Listed(cfg[w])
        /\ last[w].branch = "normal"
        /\ ~last[w].same /\ last[w].ret.val # last[w].input
        /\ WriteOk(cfg[w], last[w].ret.val) /\ ~last[w].quota
        /\ SavedText(cfg[w], last[w].ret.val) # storage[cfg[w].target]
        /\ storage[cfg[w].target] = last[w].before

\* C4 (as stated) - for a wrapper constructed over an empty slot whose trigger
\* list contains T, dispatching an action of type T that changes the state
\* leaves JSON(transform.write(resulting state)) at the key.
C4_Original ==
    \A w \in DOMAIN cfg :
        (/\ ~booted[w].has
         /\ Invoked(w) /\ last[w].ret.ok
         /\ cfg[w].triggers.defined /\ last[w].action.type \in Listed(cfg[w])
         /\ last[w].ret.val # last[w].input)
        => storage[cfg[w].target] = SavedText(cfg[w], last[w].ret.val)

\* C4 (amended) - the same, for a dispatch after the initializing invocation
\* and when transform.write, the serialization and the storage write succeed.
C4_ListedActionWrites ==
    \A w \in DOMAIN cfg :
        (/\ ~booted[w].has
         /\ last[w].branch = "normal" /\ last[w].ret.ok
         /\ cfg[w].triggers.defined /\ last[w].action.type \in Listed(cfg[w])
         /\ last[w].ret.val # last[w].input
         /\ WriteOk(cfg[w], last[w].ret.val) /\ ~last[w].quota)
        => storage[cfg[w].target] = SavedText(cfg[w], last[w].ret.val)

\* { type: 'TEST', data: 'am i writing' } with triggers ['TEST'] left
\* {"data":"am i writing","reducer":true,"updated":{}} at the key
C4_Witness ==
    \E w \in DOMAIN cfg :
        /\ ~booted[w].has
        /\ cfg[w].triggers = [defined |-> TRUE, list |-> <<"TEST">>]
        /\ last[w].branch = "normal"
        /\ last[w].action = [type |-> "TEST", data |-> Str("am i writing")]
        /\ ~last[w].before.has
        /\ storage[cfg[w].target] =
              Stored(<<LBrace, Tok("str", "data"), Colon, Tok("str", "am i writing"), Comma,
                       Tok("str", "reducer"), Colon, Tok("lit", "true"), Comma,
                       Tok("str", "updated"), Colon, LBrace, RBrace, RBrace>>)

\* C5 - with triggers explicitly empty the value at the key is, in every
\* reachable state, the value it had when the wrapper was constructed.
C5_EmptyTriggersNeverWrite ==
    \A w \in DOMAIN cfg :
        (cfg[w].triggers.defined /\ cfg[w].triggers.list = <<>>)
        => storage[cfg[w].target] = booted[w]

\* a state-changing, serializable transition with triggers [] and the slot
\* still absent
C5_Witness ==
    \E w \in DOMAIN cfg :
        /\ cfg[w].triggers.defined /\ cfg[w].triggers.list = <<>>
        /\ last[w].branch = "normal"
        /\ ~last[w].same /\ last[w].ret.val # last[w].input
        /\ WriteOk(cfg[w], last[w].ret.val) /\ ~last[w].quota
        /\ ~booted[w].has
        /\ ~storage[cfg[w].target].has

\* C6 - whenever the child returns the very state it was given, the
\* invocation leaves the value at the key as it was and emits no diagnostic,
\* for every trigger configuration and action type.
C6_NoOpNeverPersisted ==
    \A w \in DOMAIN cfg :
        (Invoked(w) /\ last[w].ret.ok /\ last[w].same)
        => /\ storage[cfg[w].target] = last[w].before
           /\ last[w].warns = <<>>

\* a no-op transition for a listed action type, where a save would have
\* changed the text at the key
C6_Witness ==
    \E w \in DOMAIN cfg :
        /\ last[w].branch = "normal"
        /\ last[w].same /\ last[w].ret.val = last[w].input
        /\ cfg[w].triggers.defined /\ last[w].action.type \in Listed(cfg[w])
        /\ WriteOk(cfg[w], last[w].ret.val) /\ ~last[w].quota
        /\ SavedText(cfg[w], last[w].ret.val) # storage[cfg[w].target]
        /\ storage[cfg[w].target] = last[w].before

\* C7 - Round trip across a restart: when a wrapper has saved state S at the
\* key, a freshly constructed wrapper on that key with the same transform
\* resolves, at its first invocation, its initial state to
\* transform.read(transform.write(S)) - S itself under the identity
\* transform - and not to the default state.
C7_RoundTrip ==
    \A w \in DOMAIN cfg :
        (last[w].branch = "init" /\ persisted[cfg[w].target].has)
        => LET S == persisted[cfg[w].target].val
           IN  /\ ~last[w].fellBack
               /\ last[w].resolved = TransformRead(cfg[w].transform, Written(cfg[w], S).val).val
               /\ cfg[w].transform = "identity" => last[w].resolved = S

\* the fixture transform: 'new data' was saved, the restarted wrapper starts
\* from 'Transformed read: Transformed write: new data'
C7_Witness ==
    \E w \in DOMAIN cfg :
        /\ last[w].branch = "init"
        /\ cfg[w].transform = "fixture"
        /\ persisted[cfg[w].target].has
        /\ Get(persisted[cfg[w].target].val, "data") = Str("new data")
        /\ Get(last[w].resolved, "data") = Str("Transformed read: Transformed write: new data")

\* the stored text cannot be unmarshalled by a wrapper configured c
Corrupt(c, stored) ==
    /\ stored.has
    /\ \/ ~JSONparse(stored.toks).ok
       \/ ~TransformRead(c.transform, JSONparse(stored.toks).val).ok

\* C8 - Corrupt storage fallback: when the text at the key does not parse or
\* transform.read fails, the first invocation resolves the initial state to
\* the default state without the marker, returns the child's reducer applied
\* to it and the incoming action, emits exactly one diagnostic, the unmarshal
\* warning, and throws nothing.
C8_CorruptStorageFallback ==
    \A w \in DOMAIN cfg :
        (last[w].branch = "init" /\ Corrupt(cfg[w], last[w].before))
        => /\ last[w].fellBack
           /\ last[w].resolved = TestDefaultState
           /\ last[w].ret = Returned(TestReducer(TestDefaultState, last[w].action).val)
           /\ last[w].warns = <<UnmarshalWarning>>

\* the truncated text {"broken":"JSON" met by an identity wrapper
C8_Witness ==
    \E w \in DOMAIN cfg :
        /\ last[w].branch = "init"
        /\ cfg[w].transform = "identity"
        /\ last[w].before = Stored(<<LBrace, Tok("str", "broken"), Colon, Tok("str", "JSON")>>)
        /\ last[w].ret.ok
        /\ Get(last[w].ret.val, "reducer") = Bool(TRUE)
        /\ last[w].warns = <<UnmarshalWarning>>

\* C9 - Marshal failure: in the normal branch, whenever the save is attempted
\* and fails (transform.write throws, the state is not serializable, or the
\* store rejects the write), the reducer returns exactly the child's next
\* state, the value at the key is what it was before the invocation, exactly
\* one diagnostic, the marshal warning, is emitted, and nothing is thrown.
C9_MarshalFailure ==
    \A w \in DOMAIN cfg :
        (Attempted(w) /\ (~WriteOk(cfg[w], last[w].ret.val) \/ last[w].quota))
        => /\ last[w].ret = Returned(TestReducer(last[w].input, last[w].action).val)
           /\ state[w] = last[w].ret.val
           /\ storage[cfg[w].target] = last[w].before
           /\ last[w].warns = <<MarshalWarning>>

\* a next state holding the self-referential object, over a slot that holds
\* an earlier save
C9_Witness ==
    \E w \in DOMAIN cfg :
        /\ Attempted(w)
        /\ cfg[w].transform = "identity"
        /\ Get(last[w].ret.val, "data") = Circ
        /\ last[w].before.has
        /\ storage[cfg[w].target] = last[w].before
        /\ last[w].warns = <<MarshalWarning>>

\* C10 - Marker hygiene: no state the reducer returned carries the default
\* state marker, and neither the text at any key nor any state handed to the
\* store carries it.
C10_MarkerHygiene ==
    /\ \A w \in DOMAIN cfg :
          (Invoked(w) /\ last[w].ret.ok) => (~MarkerOn(last[w].ret.val) /\ ~MarkerOn(state[w]))
    /\ \A k \in Keys :
          /\ storage[k].has =>
                \A i \in 1..Len(storage[k].toks) : storage[k].toks[i].x # defaultStateSourceMarker.key
          /\ persisted[k].has => ~MarkerOn(persisted[k].val)

\* the marked default state went in, fell back, and the state that came out
\* was later saved
C10_Witness ==
    \E w \in DOMAIN cfg :
        /\ ~booted[w].has
        /\ last[w].branch = "normal"
        /\ last[w].wrote
        /\ storage[cfg[w].target].has
        /\ ~MarkerOn(state[w])
        /\ MarkerOn(DefaultState)

\* the store failed during the last invocation of w: the read of the key in
\* the initialization branch, or the write of an attempted save
StoreFailed(w) ==
    \/ last[w].branch = "init" /\ last[w].denied
    \/ Attempted(w) /\ WriteOk(cfg[w], last[w].ret.val) /\ last[w].quota

\* C11 - The reducer is total with respect to storage failures: whenever the
\* read of the key during initialization or the write during persistence
\* fails, the invocation still returns a state and throws nothing.
C11_TotalUnderStoreFailure ==
    \A w \in DOMAIN cfg :
        StoreFailed(w) => (last[w].ret.ok /\ last[w].ret.val.k = "obj")

\* the stored text does not yield a valid state for a wrapper configured c:
\* it does not parse, transform.read throws, or the result is not a TestState
Unloadable(c, stored) ==
    /\ stored.has
    /\ \/ Corrupt(c, stored)
       \/ ~ValidState(TransformRead(c.transform, JSONparse(stored.toks).val).val)

\* C12 - Unmarshal recovery covers every stored value that does not yield a
\* valid state, including text that parses but is not a state (null, a wrongly
\* shaped value): the first invocation falls back to the default state without
\* the marker and reports an unmarshal failure, so the child is never called
\* with an invalid state.
C12_RecoveryCoversInvalidStates ==
    \A w \in DOMAIN cfg :
        (last[w].branch = "init" /\ ~last[w].denied /\ Unloadable(cfg[w], last[w].before))
        => /\ last[w].fellBack
           /\ last[w].resolved = TestDefaultState
           /\ last[w].warns = <<UnmarshalWarning>>
           /\ last[w].ret.ok

\* C13 - run passthrough: for every argument the wrapper's run returns the
\* action the child's run returns for it, and the call changes neither the
\* state the loop holds nor the store.
C13_RunPassthrough ==
    [][\A w \in DOMAIN cfg :
          (ran'[w] # ran[w] /\ ran'[w].has)
          => /\ ran'[w].out = TestRun(ran'[w].args)
             /\ ran'[w].out.data = ran'[w].args
             /\ state' = state
             /\ storage' = storage]_vars

\* run('am i writing') was called on an initialized wrapper over a saved slot
C13_Witness ==
    \E w \in DOMAIN cfg :
        /\ ran[w].has
        /\ ran[w].args = Str("am i writing")
        /\ ran[w].out = [type |-> "TEST", data |-> Str("am i writing")]
        /\ last[w].branch = "normal"
        /\ storage[cfg[w].target].has

\* C14 - The initialization branch runs exactly once: in the dispatch loop
\* the marker is on the incoming state only at the wrapper's very first
\* invocation, so the key is read at most once in the wrapper's lifetime and
\* every later invocation takes the normal branch.
C14_InitializationRunsOnce ==
    [][\A w \in DOMAIN cfg :
          (Invoked(w) /\ last'[w] # last[w] /\ last'[w].branch # "none")
          => last'[w].branch = "normal"]_vars

\* C16 - The initialization branch never writes the store: the first
\* invocation leaves the value at the key exactly as it found it, whether that
\* value was loaded, was absent or was corrupt, and even when the action
\* processed with the initialization changes the state and passes the
\* trigger configuration.
C16_InitializationNeverWrites ==
    \A w \in DOMAIN cfg :
        last[w].branch = "init"
        => /\ storage[cfg[w].target] = last[w].before
           /\ storage[cfg[w].target] = booted[w]
           /\ ~last[w].wrote

\* corrupt text survived an initializing TEST action that the triggers list
\* and whose state could have been saved
C16_Witness ==
    \E w \in DOMAIN cfg :
        /\ last[w].branch = "init"
        /\ Corrupt(cfg[w], last[w].before)
        /\ last[w].action.type = "TEST"
        /\ cfg[w].triggers.defined /\ last[w].action.type \in Listed(cfg[w])
        /\ last[w].ret.ok /\ last[w].ret.val # last[w].input
        /\ WriteOk(cfg[w], last[w].ret.val)
        /\ storage[cfg[w].target] = last[w].before

\* C17 - Storage content invariant for a wrapper that owns its key: in every
\* reachable state the value at the key is either the value it had before the
\* wrapper's first invocation, or JSON(transform.write(s)) for the state s
\* returned by the most recent normal-branch invocation that changed the
\* state, passed the triggers and marshalled successfully; the key is never
\* removed and never holds a partly written value.
C17_StorageContent ==
    \A w \in DOMAIN cfg :
        LET k == cfg[w].target IN
        /\ ~persisted[k].has => storage[k] = booted[w]
        /\ persisted[k].has =>
              /\ storage[k].has
              /\ storage[k] = SavedText(cfg[w], persisted[k].val)
              /\ JSONparse(storage[k].toks).ok
        /\ (Attempted(w) /\ WriteOk(cfg[w], last[w].ret.val) /\ ~last[w].quota)
              => (persisted[k].has /\ persisted[k].val = last[w].ret.val)
        /\ (Invoked(w) /\ ~(Attempted(w) /\ WriteOk(cfg[w], last[w].ret.val) /\ ~last[w].quota))
              => storage[k] = last[w].before

\* after a successful save, a later save was rejected and the earlier text
\* is still the one at the key
C17_Witness ==
    \E w \in DOMAIN cfg :
        /\ Attempted(w) /\ WriteOk(cfg[w], last[w].ret.val) /\ last[w].quota
        /\ persisted[cfg[w].target].has
        /\ persisted[cfg[w].target].val # last[w].ret.val
        /\ storage[cfg[w].target] = SavedText(cfg[w], persisted[cfg[w].target].val)
        /\ storage[cfg[w].target] # booted[w]

\* C15 - Last write wins between instances sharing a key: with the reducer
\* invocations of two instances on one key interleaved in any order, the value
\* at the key is in every reachable state either its initial value or the
\* text produced by the most recent successful save of either instance; no
\* interleaving leaves a value neither instance wrote.
C15_LastWriteWins ==
    \A k \in Keys :
        /\ ~persisted[k].has => \A w \in DOMAIN cfg : cfg[w].target = k => storage[k] = booted[w]
        /\ persisted[k].has =>
              /\ persisted[k].by \in DOMAIN cfg
              /\ storage[k] = SavedText(cfg[persisted[k].by], persisted[k].val)

\* instance 1 saved, then instance 2 saved a different state over it
C15_Witness ==
    /\ DOMAIN cfg = {1, 2}
    /\ cfg[1].target = cfg[2].target
    /\ last[1].wrote /\ last[2].wrote
    /\ last[2].before = SavedText(cfg[1], last[1].ret.val)
    /\ last[1].ret.val # last[2].ret.val
    /\ persisted[cfg[1].target].by = 2
    /\ storage[cfg[1].target] = SavedText(cfg[2], last[2].ret.val)

\* the two runs hold the same initialized state
Agree == state[1] = state[2] /\ ~HasMarker(state[1])

\* C18 - After initialization the in-memory state does not depend on the
\* store: when two runs hold the same initialized state and receive the same
\* action, their reducers return the same state, whatever their stores hold
\* and however the store was modified by another writer in between; so from
\* the same initialized state the two sequences of returned states are equal.
C18_StateIndependentOfStore ==
    [][(Agree /\ last' # last) =>
          /\ last'[1].ret = last'[2].ret
          /\ last'[1].ret.ok
          /\ state'[1] = state'[2]]_vars

\* the two runs agreed, took the normal branch on an action that changed the
\* state and returned the same state, while the store of the second run,
\* empty at construction, held text no wrapper writes and the store of the
\* first run held something else
C18_Witness ==
    /\ DOMAIN cfg = {1, 2}
    /\ last[1].branch = "normal" /\ last[2].branch = "normal"
    /\ last[1].input = last[2].input
    /\ ~last[1].same
    /\ last[1].ret.ok /\ last[1].ret = last[2].ret
    /\ booted[2] = Absent
    /\ last[2].before.has /\ ~JSONparse(last[2].before.toks).ok
    /\ last[1].before # last[2].before

\* the store as wrapper w would find it if it ran alone: only its own key
Alone(w) == [k \in Keys |-> IF k = cfg[w].target THEN storage[k] ELSE Absent]

\* C19 - Key isolation: under a combined reducer over wrappers with distinct
\* keys, an invocation of a wrapper returns what it would return, and leaves
\* at its own key what it would leave, if it ran alone on a store holding
\* only its own key; the value at a key changes only in an invocation of the
\* wrapper that owns it, by a successful save of that wrapper.
C19_KeyIsolation ==
    [][\A w \in DOMAIN cfg :
          LET k == cfg[w].target
              alone == InternalReducer(cfg[w], state[w], last'[w].action, Alone(w),
                                       last'[w].quota, FALSE)
          IN  IF last'[w] # last[w]
              THEN /\ last'[w].ret = alone.ret
                   /\ storage'[k] = alone.store[k]
                   /\ storage'[k] # storage[k] => last'[w].wrote
              ELSE storage'[k] = storage[k]]_vars

\* the test 'Should write to localStorage on relevant triggers': one action
\* reached both wrappers in the normal branch and changed both states; the
\* first saved its state at 'rlswt', replacing what was there, and the value
\* at 'rlsnt', whose wrapper did not save, is the one it had at construction
C19_Witness ==
    /\ DOMAIN cfg = {1, 2} /\ cfg[1].target # cfg[2].target
    /\ last[1].branch = "normal" /\ last[2].branch = "normal"
    /\ last[1].action = last[2].action
    /\ ~last[1].same /\ ~last[2].same
    /\ last[1].wrote /\ ~last[2].wrote
    /\ storage[cfg[1].target] = SavedText(cfg[1], last[1].ret.val)
    /\ storage[cfg[1].target] # last[1].before
    /\ ~persisted[cfg[2].target].has
    /\ storage[cfg[2].target] = booted[2]
    /\ storage[cfg[2].target] # storage[cfg[1].target]

====
